---------------------------- MODULE Spec2Model ----------------------------
(***************************************************************************)
(* JPVocabHelper: the EPUB vocabulary pipeline (backend/services/          *)
(* epub_processor.py), the /upload-epub handler that drives it             *)
(* (backend/app.py) and the SQLite storage it reads and writes            *)
(* (backend/storage/sqlite_storage.py).                                    *)
(*                                                                         *)
(* A Python str is a sequence of characters.  A character is a string      *)
(* naming it: hiragana by romaji ("ko" is U+3053), kanji by an upper-case  *)
(* reading ("GAKU" is U+5B66), ASCII letters and digits by themselves.     *)
(* The one-letter kana carry an underscore ("i_" is U+3044) so that they   *)
(* differ from the ASCII letters.                                          *)
(***************************************************************************)
EXTENDS Integers, Sequences, FiniteSets, TLC

(***************************************************************************)
(* Bounds of the model.                                                    *)
(***************************************************************************)
\* the longest archive (number of document items) an upload carries
MaxItems == 2
\* the limits a caller passes are -1 .. MaxLimit
MaxLimit == 3
\* the threads that call the storage module at the same time
MaxThreads == 2

(***************************************************************************)
(* Characters with a role in the code.                                     *)
(***************************************************************************)
\* what str.strip() removes: space, line feed, tab, U+3000 ideographic space
Whitespace == {" ", "LF", "TAB", "IDSP"}
\* the class without the closing quotation mark, as in r'(?<=[。！？])'
SentenceFinal_NoQuote == {"KUTEN", "EXCL", "QUES"}
\* the character class of the split pattern, [。！？」]
SentenceFinal == {"KUTEN", "EXCL", "QUES", "KAGI_R"}
\* len(sentence) < 5 is skipped
MinSentenceLen == 5

(***************************************************************************)
(* Part-of-speech labels as the tokenizer writes them (IPADIC, four        *)
(* comma-separated levels).                                                *)
(***************************************************************************)
\* 名詞 / 動詞 / 形容詞 / 非自立
NOUN == <<"MEI", "SHI">>
VERB == <<"DOU", "SHI">>
ADJECTIVE == <<"KEI", "YOU", "SHI">>
NON_INDEPENDENT == <<"HI", "JI2", "RITSU">>
Rest2 == <<",", "*", ",", "*">>
Rest3 == <<",", "*", ",", "*", ",", "*">>
\* 名詞,一般,*,*
PosNounGeneral == NOUN \o <<",", "ICHI", "HAN">> \o Rest2
\* 名詞,代名詞,一般,*
PosPronoun == NOUN \o <<",", "DAI", "MEI", "SHI", ",", "ICHI", "HAN", ",", "*">>
\* 名詞,サ変接続,*,*
PosNounSahen == NOUN \o <<",", "SA", "HEN", "SETSU", "ZOKU">> \o Rest2
\* 名詞,形容動詞語幹,*,*
PosNounAdjStem == NOUN \o <<",", "KEI", "YOU", "DOU", "SHI", "GO", "KAN">> \o Rest2
\* 名詞,非自立,副詞可能,*
PosNounDependent == NOUN \o <<",">> \o NON_INDEPENDENT \o <<",", "FUKU", "SHI", "KA", "NOU", ",", "*">>
\* 動詞,自立,*,*
PosVerb == VERB \o <<",", "JI2", "RITSU">> \o Rest2
\* 動詞,非自立,*,*
PosVerbDependent == VERB \o <<",">> \o NON_INDEPENDENT \o Rest2
\* 形容詞,自立,*,*
PosAdjective == ADJECTIVE \o <<",", "JI2", "RITSU">> \o Rest2
\* 助動詞,*,*,*
PosAuxVerb == <<"JO", "DOU", "SHI">> \o Rest3
\* 助詞,格助詞,一般,*
PosCaseParticle == <<"JO", "SHI", ",", "KAKU", "JO", "SHI", ",", "ICHI", "HAN", ",", "*">>
\* 助詞,係助詞,*,*
PosBindParticle == <<"JO", "SHI", ",", "KAKARI", "JO", "SHI">> \o Rest2
\* 助詞,連体化,*,*
PosAdnominal == <<"JO", "SHI", ",", "REN", "TAI", "KA2">> \o Rest2
\* 助詞,接続助詞,*,*
PosConjParticle == <<"JO", "SHI", ",", "SETSU", "ZOKU", "JO", "SHI">> \o Rest2
\* 記号,句点,*,*   記号,一般,*,*   記号,括弧開,*,*   記号,括弧閉,*,*   記号,空白,*,*
PosPeriod == <<"KI", "GOU", ",", "KU", "TEN">> \o Rest2
PosSymbol == <<"KI", "GOU", ",", "ICHI", "HAN">> \o Rest2
PosBracketOpen == <<"KI", "GOU", ",", "KATSU", "KO", "KAI">> \o Rest2
PosBracketClose == <<"KI", "GOU", ",", "KATSU", "KO", "HEI">> \o Rest2
PosSpace == <<"KI", "GOU", ",", "KUU", "HAKU">> \o Rest2
\* 助詞,格助詞,引用,*
PosQuoteParticle == <<"JO", "SHI", ",", "KAKU", "JO", "SHI", ",", "IN", "YOU", ",", "*">>

(***************************************************************************)
(* The texts of the model's books.                                         *)
(***************************************************************************)
\* これは文です。次の文。   (11 characters)
TextEx ==
    <<"ko", "re", "ha", "BUN", "de", "su", "KUTEN", "JI", "no", "BUN", "KUTEN">>
\* 高い学校に行く。学校だ。 学校が好きだ！   (20 characters)
TextA ==
    <<"TAKA", "i_", "GAKU", "KOU", "ni", "GYOU", "ku", "KUTEN", "GAKU", "KOU", "da", "KUTEN",
      " ", "GAKU", "KOU", "ga", "SUKI", "ki", "da", "EXCL">>
\* 「本を読んだ。」勉強する？読んでしまうため。   (22 characters)
TextB ==
    <<"KAGI_L", "HON", "wo", "DOKU", "n_", "da", "KUTEN", "KAGI_R", "BEN", "KYOU", "su", "ru",
      "QUES", "DOKU", "n_", "de", "shi", "ma", "u_", "ta", "me", "KUTEN">>
\* TEXTCOLLBYfGiJUETHQ4hAcKSMd5zYpgqf1YRDhkmxHkhPWptrkoyz28wnI9V0aHeAuaKnak  (72 characters)
TextColl1 ==
    <<"T", "E", "X", "T", "C", "O", "L", "L", "B", "Y", "f", "G", "i", "J", "U", "E", "T", "H",
      "Q", "4", "h", "A", "c", "K", "S", "M", "d", "5", "z", "Y", "p", "g", "q", "f", "1", "Y",
      "R", "D", "h", "k", "m", "x", "H", "k", "h", "P", "W", "p", "t", "r", "k", "o", "y", "z",
      "2", "8", "w", "n", "I", "9", "V", "0", "a", "H", "e", "A", "u", "a", "K", "n", "a", "k">>
\* TEXTCOLLBYfGiJUETHQ4hEcKSMd5zYpgqf1YRDhkmxHkhPWptrkoyz28wnI9V0aHeAuaKnak  (72 characters)
TextColl2 ==
    <<"T", "E", "X", "T", "C", "O", "L", "L", "B", "Y", "f", "G", "i", "J", "U", "E", "T", "H",
      "Q", "4", "h", "E", "c", "K", "S", "M", "d", "5", "z", "Y", "p", "g", "q", "f", "1", "Y",
      "R", "D", "h", "k", "m", "x", "H", "k", "h", "P", "W", "p", "t", "r", "k", "o", "y", "z",
      "2", "8", "w", "n", "I", "9", "V", "0", "a", "H", "e", "A", "u", "a", "K", "n", "a", "k">>

\* 「はい」と言った。   (9 characters)
TextQuote ==
    <<"KAGI_L", "ha", "i_", "KAGI_R", "to", "GEN", "xtsu", "ta", "KUTEN">>

\* 学校, 読む: the words the known-words table may hold
GAKKOU == <<"GAKU", "KOU">>
YOMU == <<"DOKU", "mu">>


(***************************************************************************)
(* The document items of the model's archives.  content is what            *)
(* item.get_content() returns: "empty" (b""), "malformed" (bytes that      *)
(* lxml.html.fromstring refuses, such as b" ": ParserError "Document is    *)
(* empty") or "html", parsed into the text nodes of the tree in document   *)
(* order, each under the tag that holds it.                                *)
(***************************************************************************)
ItemEmpty == [content |-> "empty", nodes |-> <<>>]
ItemMalformed == [content |-> "malformed", nodes |-> <<>>]
\* <p> \n</p> with a lone reading gloss: no text is left after strip()
ItemBlank ==
    [content |-> "html",
     nodes |-> << [tag |-> "p", text |-> <<" ", "LF">>],
                  [tag |-> "rt", text |-> <<"ka">>] >>]
ItemEx == [content |-> "html", nodes |-> << [tag |-> "p", text |-> TextEx] >>]
ItemA ==
    [content |-> "html",
     nodes |-> << [tag |-> "p", text |-> <<"LF", " ">> \o TextA \o <<"LF">>] >>]
\* the text of ItemA again, with furigana on 学校 and other padding
ItemARuby ==
    [content |-> "html",
     nodes |-> << [tag |-> "p", text |-> <<"IDSP">> \o SubSeq(TextA, 1, 2)],
                  [tag |-> "ruby", text |-> SubSeq(TextA, 3, 4)],
                  [tag |-> "rt", text |-> <<"ga", "xtsu", "ko", "u_">>],
                  [tag |-> "p", text |-> SubSeq(TextA, 5, Len(TextA))] >>]
ItemB == [content |-> "html", nodes |-> << [tag |-> "p", text |-> TextB] >>]
ItemColl1 == [content |-> "html", nodes |-> << [tag |-> "p", text |-> TextColl1] >>]
ItemColl2 == [content |-> "html", nodes |-> << [tag |-> "p", text |-> TextColl2] >>]
ItemQuote == [content |-> "html", nodes |-> << [tag |-> "p", text |-> TextQuote] >>]

DocumentItems ==
    {ItemEmpty, ItemMalformed, ItemBlank, ItemEx, ItemA, ItemARuby, ItemB,
     ItemColl1, ItemColl2, ItemQuote}

\* book.get_items_of_type(ITEM_DOCUMENT): every archive of at most MaxItems items
Archives == UNION {[1..n -> DocumentItems] : n \in 0..MaxItems}

\* the contents the known_words table may have when a request arrives
KnownWordSets == {{}, {GAKKOU}, {GAKKOU, YOMU}}

Limits == (0 - 1)..MaxLimit

(***************************************************************************)
(* str operations.                                                         *)
(***************************************************************************)
RECURSIVE LStrip(_)
LStrip(s) ==
    IF s = <<>> \/ Head(s) \notin Whitespace THEN s ELSE LStrip(Tail(s))

RECURSIVE RStrip(_)
RStrip(s) ==
    IF s = <<>> \/ s[Len(s)] \notin Whitespace THEN s
    ELSE RStrip(SubSeq(s, 1, Len(s) - 1))

\* str.strip()
Strip(s) == RStrip(LStrip(s))

\* str.startswith(prefix)
StartsWith(s, prefix) ==
    Len(s) >= Len(prefix) /\ SubSeq(s, 1, Len(prefix)) = prefix

\* sub in s
Contains(s, sub) ==
    \E k \in 1..(Len(s) - Len(sub) + 1) : SubSeq(s, k, k + Len(sub) - 1) = sub

RECURSIVE Concat(_)
Concat(ss) == IF ss = <<>> THEN <<>> ELSE Head(ss) \o Concat(Tail(ss))

(***************************************************************************)
(* extract_chapters_from_epub.                                             *)
(***************************************************************************)
IsNotRt(node) == node.tag # "rt"

\* for rt in tree.xpath('.//rt'): rt.getparent().remove(rt)
RemoveRt(nodes) == SelectSeq(nodes, IsNotRt)

\* tree.text_content()
TextContent(nodes) == Concat([k \in 1..Len(nodes) |-> nodes[k].text])

\* the trimmed text of a parsed item
ItemText(item) == Strip(TextContent(RemoveRt(item.nodes)))

\* text_hash = hashlib.md5(text.encode('utf-8')).hexdigest(), tabulated over the texts of
\* the model
MD5(text) ==
    CASE text = TextEx -> "b34310e8f2e6465fadb5caa059b8c4b7"
      [] text = TextA -> "07970977045c8e20ee6fecb5a3d9c9c9"
      [] text = TextB -> "0db58c1cc8abdfb8d717c9e0235a082c"
      [] text = TextColl1 -> "faad49866e9498fc1719f5289e7a0269"
      [] text = TextColl2 -> "faad49866e9498fc1719f5289e7a0269"
      [] text = TextQuote -> "cfd23a63786e8acd34a9754ddda9fc3e"

\* text_hash in seen_hashes
IsSeen(seen, text) == MD5(text) \in seen

\* a variant that never remembers a fingerprint
AddHash_Forgotten(seen, text) == seen

\* seen_hashes.add(text_hash)
AddHash(seen, text) == seen \cup {MD5(text)}

(***************************************************************************)
(* re.split(r'(?<=[。！？」])', text): the text is cut after every          *)
(* sentence-final character, the end of the text included.                 *)
(***************************************************************************)
\* the index of the first sentence-final character of s, 0 when it has none
FirstFinal(s) ==
    IF \E k \in 1..Len(s) : s[k] \in SentenceFinal
    THEN CHOOSE k \in 1..Len(s) :
            /\ s[k] \in SentenceFinal
            /\ \A j \in 1..(k - 1) : s[j] \notin SentenceFinal
    ELSE 0

\* a variant that splits on the sentence-final characters themselves, as
\* re.split(r'[。！？」]', text) does: the delimiters are lost
RECURSIVE ReSplit_OnFinal(_)
ReSplit_OnFinal(text) ==
    LET k == FirstFinal(text)
    IN  IF k = 0 THEN <<text>>
        ELSE <<SubSeq(text, 1, k - 1)>> \o ReSplit_OnFinal(SubSeq(text, k + 1, Len(text)))

RECURSIVE ReSplit(_)
ReSplit(text) ==
    LET k == FirstFinal(text)
    IN  IF k = 0 THEN <<text>>
        ELSE <<SubSeq(text, 1, k)>> \o ReSplit(SubSeq(text, k + 1, Len(text)))

(***************************************************************************)
(* TOKENIZER.tokenize(sentence): the morphological analyzer, as a          *)
(* longest-match lookup in a dictionary.  A character no entry starts      *)
(* with is a token of its own.                                             *)
(***************************************************************************)
Entry(surface, base, pos) ==
    [surface |-> surface, base_form |-> base, part_of_speech |-> pos]

Lexicon ==
    { Entry(<<"ko", "re">>, <<"ko", "re">>, PosPronoun),            \* これ
      Entry(<<"ha">>, <<"ha">>, PosBindParticle),                   \* は
      Entry(<<"BUN">>, <<"BUN">>, PosNounGeneral),                  \* 文
      Entry(<<"de", "su">>, <<"de", "su">>, PosAuxVerb),            \* です
      Entry(<<"KUTEN">>, <<"KUTEN">>, PosPeriod),                   \* 。
      Entry(<<"JI">>, <<"JI">>, PosNounGeneral),                    \* 次
      Entry(<<"no">>, <<"no">>, PosAdnominal),                      \* の
      Entry(<<"TAKA", "i_">>, <<"TAKA", "i_">>, PosAdjective),      \* 高い
      Entry(GAKKOU, GAKKOU, PosNounGeneral),                        \* 学校
      Entry(<<"ni">>, <<"ni">>, PosCaseParticle),                   \* に
      Entry(<<"GYOU", "ku">>, <<"GYOU", "ku">>, PosVerb),           \* 行く
      Entry(<<"da">>, <<"da">>, PosAuxVerb),                        \* だ
      Entry(<<"ga">>, <<"ga">>, PosCaseParticle),                   \* が
      Entry(<<"SUKI", "ki">>, <<"SUKI", "ki">>, PosNounAdjStem),    \* 好き
      Entry(<<"EXCL">>, <<"EXCL">>, PosSymbol),                     \* ！
      Entry(<<"QUES">>, <<"QUES">>, PosSymbol),                     \* ？
      Entry(<<"KAGI_L">>, <<"KAGI_L">>, PosBracketOpen),            \* 「
      Entry(<<"KAGI_R">>, <<"KAGI_R">>, PosBracketClose),           \* 」
      Entry(<<"HON">>, <<"HON">>, PosNounGeneral),                  \* 本
      Entry(<<"wo">>, <<"wo">>, PosCaseParticle),                   \* を
      Entry(<<"DOKU", "n_">>, YOMU, PosVerb),                       \* 読ん -> 読む
      Entry(<<"BEN", "KYOU">>, <<"BEN", "KYOU">>, PosNounSahen),    \* 勉強
      Entry(<<"su", "ru">>, <<"su", "ru">>, PosVerb),               \* する
      Entry(<<"de">>, <<"de">>, PosConjParticle),                   \* で
      Entry(<<"shi", "ma", "u_">>, <<"shi", "ma", "u_">>, PosVerbDependent),  \* しまう
      Entry(<<"ta", "me">>, <<"ta", "me">>, PosNounDependent),      \* ため
      Entry(<<"to">>, <<"to">>, PosQuoteParticle),                  \* と
      Entry(<<"GEN", "xtsu">>, <<"GEN", "u_">>, PosVerb),           \* 言っ -> 言う
      Entry(<<"ta">>, <<"ta">>, PosAuxVerb),                        \* た
      Entry(<<" ">>, <<" ">>, PosSpace),
      Entry(TextColl1, TextColl1, PosNounGeneral),
      Entry(TextColl2, TextColl2, PosNounGeneral) }

\* the dictionary entries whose surface form starts s
Matches(s) == {e \in Lexicon : StartsWith(s, e.surface)}

\* the first morpheme of the non-empty s
FirstToken(s) ==
    IF Matches(s) = {} THEN Entry(<<Head(s)>>, <<Head(s)>>, PosSymbol)
    ELSE CHOOSE e \in Matches(s) :
            \A f \in Matches(s) : Len(f.surface) <= Len(e.surface)

RECURSIVE Tokenize(_)
Tokenize(s) ==
    IF s = <<>> THEN <<>>
    ELSE LET t == FirstToken(s)
         IN  <<t>> \o Tokenize(SubSeq(s, Len(t.surface) + 1, Len(s)))

(***************************************************************************)
(* get_vocab_with_context: the filters and the aggregation.                *)
(* word_info is a dict, which keeps its keys in insertion order: a         *)
(* sequence of entries [word, count, context], one per key.                *)
(***************************************************************************)
\* {'いる', 'する', 'ある', 'なる', 'れる', 'られる', 'いう',
\*  'もの', 'こと', 'とき', 'そう', 'よう', 'くる', 'いく'}
BLACKList ==
    { <<"i_", "ru">>, <<"su", "ru">>, <<"a_", "ru">>, <<"na", "ru">>, <<"re", "ru">>,
      <<"ra", "re", "ru">>, <<"i_", "u_">>, <<"mo", "no">>, <<"ko", "to">>,
      <<"to", "ki">>, <<"so", "u_">>, <<"yo", "u_">>, <<"ku", "ru">>, <<"i_", "ku">> }

\* a variant that lets fragments of four characters through
IsTinyFragment_OffByOne(s) == Len(s) < MinSentenceLen - 1

\* len(sentence) < 5
IsTinyFragment(s) == Len(s) < MinSentenceLen

\* len(base) <= 1
IsShortBase(base) == Len(base) <= 1

\* a variant that forgets the known words
IsExcluded_BlackListOnly(base, known) == base \in BLACKList

\* base in BLACKList or base in known_words
IsExcluded(base, known) == base \in BLACKList \/ base \in known

\* a variant that looks for the category anywhere in the label
IsIndependentContentWord_Anywhere(pos) ==
    /\ Contains(pos, NOUN) \/ Contains(pos, VERB) \/ Contains(pos, ADJECTIVE)
    /\ ~Contains(pos, NON_INDEPENDENT)

\* pos.startswith(('名詞', '動詞', '形容詞')) and '非自立' not in pos
IsIndependentContentWord(pos) ==
    /\ StartsWith(pos, NOUN) \/ StartsWith(pos, VERB) \/ StartsWith(pos, ADJECTIVE)
    /\ ~Contains(pos, NON_INDEPENDENT)

\* the token passes the three filters
IsCounted(t, known) ==
    /\ ~IsShortBase(t.base_form)
    /\ ~IsExcluded(t.base_form, known)
    /\ IsIndependentContentWord(t.part_of_speech)

HasKey(info, base) == \E k \in 1..Len(info) : info[k].word = base

\* a variant that writes the context at every occurrence
Record_LastContext(info, base, s) ==
    IF \E k \in 1..Len(info) : info[k].word = base
    THEN [k \in 1..Len(info) |->
            IF info[k].word = base
            THEN [info[k] EXCEPT !.count = @ + 1, !.context = s]
            ELSE info[k]]
    ELSE Append(info, [word |-> base, count |-> 1, context |-> s])

\* word_info[base] = [1, sentence]   /   word_info[base][0] += 1
Record(info, base, s) ==
    IF HasKey(info, base)
    THEN [k \in 1..Len(info) |->
            IF info[k].word = base
            THEN [info[k] EXCEPT !.count = @ + 1]
            ELSE info[k]]
    ELSE Append(info, [word |-> base, count |-> 1, context |-> s])

\* one turn of "for t in tokens"
Aggregate(info, t, s, known) ==
    IF IsCounted(t, known) THEN Record(info, t.base_form, s) ELSE info

(***************************************************************************)
(* sorted(word_info.items(), key=lambda x: x[1][0], reverse=True)[:limit]  *)
(***************************************************************************)
\* a variant that puts e in front of the entries of its own count
InsertByCount_BeforeTies(res, e) ==
    LET k == Cardinality({j \in 1..Len(res) : res[j].count > e.count})
    IN  SubSeq(res, 1, k) \o <<e>> \o SubSeq(res, k + 1, Len(res))

\* e goes behind every entry whose count is at least its own: the sort is
\* stable, and reverse=True keeps the order of equal keys
InsertByCount(res, e) ==
    LET k == Cardinality({j \in 1..Len(res) : res[j].count >= e.count})
    IN  SubSeq(res, 1, k) \o <<e>> \o SubSeq(res, k + 1, Len(res))

RECURSIVE SortedInto(_, _)
SortedInto(res, info) ==
    IF info = <<>> THEN res
    ELSE SortedInto(InsertByCount(res, Head(info)), Tail(info))

Sorted(info) == SortedInto(<<>>, info)

ClampIndex(k, n) == IF k < 0 THEN 0 ELSE IF k > n THEN n ELSE k

\* seq[:limit]: a negative limit counts from the end
SliceTo(seq, lim) ==
    SubSeq(seq, 1, ClampIndex(IF lim < 0 THEN Len(seq) + lim ELSE lim, Len(seq)))

\* {"word": word, "frequency": info[0], "context": info[1]}
VocabList(top) ==
    [k \in 1..Len(top) |->
        [word |-> top[k].word, frequency |-> top[k].count, context |-> top[k].context]]

(***************************************************************************)
(* The state.                                                              *)
(***************************************************************************)
VARIABLES
    pc,           \* where the /upload-epub request is
    items,        \* the document items of the uploaded archive
    limit,        \* the request's limit
    i,            \* extract_chapters_from_epub: the item the loop is at
    chapters,     \* extract_chapters_from_epub: chapters
    seen_hashes,  \* extract_chapters_from_epub: seen_hashes
    known_words,  \* upload_epub: known_words
    ci,           \* get_vocab_with_context: the chapter the outer loop is at
    sentences,    \* get_vocab_with_context: sentences
    si,           \* the sentence the loop is at
    sentence,     \* the trimmed sentence being tokenized
    tokens,       \* tokens
    ti,           \* the token the inner loop is at
    word_info,    \* word_info
    tokenized,    \* every argument TOKENIZER.tokenize was called with, in order
    visited,      \* every token the inner loop has taken, with its sentence
    top_vocab,    \* upload_epub: top_vocab
    response,     \* the HTTP response: status 0 while there is none
    db_known,     \* table known_words: the set of its words
    db_cache,     \* table vocab_cache: its rows in rowid order
    db_lock,      \* _db_lock: the thread that holds it, 0 when it is free
    t_pc,         \* per thread: where its storage call is
    t_op,         \* per thread: the storage function it calls, with its argument
    t_todo,       \* per thread: the SQL statements its call has yet to execute
    t_conn,       \* per thread: its open connection, as the tables it sees
    t_result,     \* per thread: what its call returns
    a_pc,         \* upload_anki: where the request is
    a_file,       \* upload_anki: the uploaded file
    a_before,     \* table known_words as it was when the upload arrived
    a_lines,      \* extract_words_from_anki_txt: lines
    a_li,         \* extract_words_from_anki_txt: the line the loop is at
    a_words,      \* extract_words_from_anki_txt: words
    a_response    \* the HTTP response of upload_anki: status 0 while there is none

reqVars == <<items, limit>>
extractVars == <<i, chapters, seen_hashes>>
aggVars == <<known_words, ci, sentences, si, sentence, tokens, ti, word_info,
             tokenized, visited>>
outVars == <<top_vocab, response>>
dbVars == <<db_known, db_cache>>
thrVars == <<db_lock, t_pc, t_op, t_todo, t_conn, t_result>>
ankiVars == <<a_pc, a_file, a_before, a_lines, a_li, a_words, a_response>>
vars == <<pc, reqVars, extractVars, aggVars, outVars, dbVars, thrVars, ankiVars>>

NoResponse == [status |-> 0, vocab |-> <<>>]

\* the rows an earlier upload left in vocab_cache
OldCache == << [word |-> <<"ko", "re">>, frequency |-> 1, context |-> SubSeq(TextEx, 1, 7)] >>

Threads == 1..MaxThreads

\* no connection: sqlite3.connect has not been called, or conn.close() has
Closed == [open |-> FALSE, known |-> {}, cache |-> <<>>]

NoOp == [name |-> "none", words |-> <<>>, vocab_list |-> <<>>]
NoResult == [known |-> {}, rows |-> <<>>]

\* the storage module before any call of it
StorageIdle ==
    /\ db_lock = 0
    /\ t_pc = [t \in Threads |-> "idle"]
    /\ t_op = [t \in Threads |-> NoOp]
    /\ t_todo = [t \in Threads |-> <<>>]
    /\ t_conn = [t \in Threads |-> Closed]
    /\ t_result = [t \in Threads |-> NoResult]

\* the request in front of the handler
RequestIdle ==
    /\ pc = "idle"
    /\ items = <<>>
    /\ limit = 0
    /\ i = 0
    /\ chapters = <<>>
    /\ seen_hashes = {}
    /\ known_words = {}
    /\ ci = 0
    /\ sentences = <<>>
    /\ si = 0
    /\ sentence = <<>>
    /\ tokens = <<>>
    /\ ti = 0
    /\ word_info = <<>>
    /\ tokenized = <<>>
    /\ visited = <<>>
    /\ top_vocab = <<>>
    /\ response = NoResponse

\* no upload of an Anki export yet
NoFile == [name |-> <<>>, utf8 |-> TRUE, content |-> <<>>]
NoAnkiResponse == [status |-> 0, detail |-> "", words_imported |-> 0, total_known_words |-> 0]

AnkiIdle ==
    /\ a_pc = "idle"
    /\ a_file = NoFile
    /\ a_before = {}
    /\ a_lines = <<>>
    /\ a_li = 0
    /\ a_words = {}
    /\ a_response = NoAnkiResponse

Init ==
    /\ RequestIdle
    /\ StorageIdle
    /\ AnkiIdle
    /\ db_known \in KnownWordSets
    /\ db_cache = OldCache

(***************************************************************************)
(* POST /upload-epub                                                       *)
(***************************************************************************)
\* the request arrives: the .epub check, the temporary file, and the call
\* of extract_chapters_from_epub up to its loop
UploadEpub ==
    /\ UNCHANGED <<thrVars, ankiVars>>
    /\ pc = "idle"
    /\ \E is_epub \in BOOLEAN, archive \in Archives, lim \in Limits :
          \/ /\ ~is_epub
             /\ pc' = "rejected"
             /\ response' = [status |-> 400, vocab |-> <<>>]
             /\ UNCHANGED <<reqVars, extractVars, top_vocab>>
          \/ /\ is_epub
             /\ items' = archive
             /\ limit' = lim
             /\ i' = 1
             /\ chapters' = <<>>
             /\ seen_hashes' = {}
             /\ pc' = "extract"
             /\ UNCHANGED outVars
    /\ UNCHANGED <<aggVars, dbVars>>

\* one turn of "for item in items"
ExtractItem ==
    /\ UNCHANGED <<thrVars, ankiVars>>
    /\ pc = "extract"
    /\ i <= Len(items)
    /\ \/ /\ items[i].content = "empty"
          /\ i' = i + 1
          /\ UNCHANGED <<pc, chapters, seen_hashes, response>>
       \/ /\ items[i].content = "malformed"
          \* lxml.html.fromstring raises; upload_epub's except answers 500
          /\ pc' = "failed"
          /\ response' = [status |-> 500, vocab |-> <<>>]
          /\ UNCHANGED <<i, chapters, seen_hashes>>
       \/ /\ items[i].content = "html"
          /\ LET text == ItemText(items[i])
             IN  IF text = <<>> \/ IsSeen(seen_hashes, text)
                 THEN UNCHANGED <<chapters, seen_hashes>>
                 ELSE /\ seen_hashes' = AddHash(seen_hashes, text)
                      /\ chapters' = Append(chapters, text)
          /\ i' = i + 1
          /\ UNCHANGED <<pc, response>>
    /\ UNCHANGED <<reqVars, aggVars, top_vocab, dbVars>>

\* return chapters; known_words = load_known_words(); get_vocab_with_context
\* starts with an empty word_info
LoadKnownWords ==
    /\ UNCHANGED <<thrVars, ankiVars>>
    /\ pc = "extract"
    /\ i > Len(items)
    /\ known_words' = db_known
    /\ word_info' = <<>>
    /\ ci' = 1
    /\ pc' = "chapter"
    /\ UNCHANGED <<reqVars, extractVars, sentences, si, sentence, tokens, ti,
                   tokenized, visited, outVars, dbVars>>

\* one turn of "for text in chapters": the split
SplitChapter ==
    /\ UNCHANGED <<thrVars, ankiVars>>
    /\ pc = "chapter"
    /\ ci <= Len(chapters)
    /\ sentences' = ReSplit(chapters[ci])
    /\ si' = 1
    /\ pc' = "sentence"
    /\ UNCHANGED <<reqVars, extractVars, known_words, ci, sentence, tokens, ti,
                   word_info, tokenized, visited, outVars, dbVars>>

\* one turn of "for sentence in sentences", up to the call of the tokenizer
TakeSentence ==
    /\ UNCHANGED <<thrVars, ankiVars>>
    /\ pc = "sentence"
    /\ \/ /\ si <= Len(sentences)
          /\ IsTinyFragment(Strip(sentences[si]))
          /\ si' = si + 1
          /\ UNCHANGED <<pc, ci, sentence, tokens, ti, tokenized, response>>
       \/ /\ si <= Len(sentences)
          /\ ~IsTinyFragment(Strip(sentences[si]))
          /\ sentence' = Strip(sentences[si])
          /\ tokenized' = Append(tokenized, Strip(sentences[si]))
          /\ tokens' = Tokenize(Strip(sentences[si]))
          /\ ti' = 1
          /\ pc' = "token"
          /\ UNCHANGED <<ci, si, response>>
       \/ /\ si <= Len(sentences)
          /\ ~IsTinyFragment(Strip(sentences[si]))
          \* the tokenizer raises; upload_epub's except answers 500
          /\ sentence' = Strip(sentences[si])
          /\ tokenized' = Append(tokenized, Strip(sentences[si]))
          /\ pc' = "failed"
          /\ response' = [status |-> 500, vocab |-> <<>>]
          /\ UNCHANGED <<ci, si, tokens, ti>>
       \/ /\ si > Len(sentences)
          /\ ci' = ci + 1
          /\ pc' = "chapter"
          /\ UNCHANGED <<si, sentence, tokens, ti, tokenized, response>>
    /\ UNCHANGED <<reqVars, extractVars, known_words, sentences, word_info,
                   visited, top_vocab, dbVars>>

\* one turn of "for t in tokens"
CountToken ==
    /\ UNCHANGED <<thrVars, ankiVars>>
    /\ pc = "token"
    /\ \/ /\ ti <= Len(tokens)
          /\ word_info' = Aggregate(word_info, tokens[ti], sentence, known_words)
          /\ visited' = Append(visited, [tok |-> tokens[ti], sent |-> sentence])
          /\ ti' = ti + 1
          /\ UNCHANGED <<pc, si>>
       \/ /\ ti > Len(tokens)
          /\ si' = si + 1
          /\ pc' = "sentence"
          /\ UNCHANGED <<ti, word_info, visited>>
    /\ UNCHANGED <<reqVars, extractVars, known_words, ci, sentences, sentence,
                   tokens, tokenized, outVars, dbVars>>

\* the sort and the slice that end get_vocab_with_context
Rank ==
    /\ UNCHANGED <<thrVars, ankiVars>>
    /\ pc = "chapter"
    /\ ci > Len(chapters)
    /\ top_vocab' = SliceTo(Sorted(word_info), limit)
    /\ pc' = "save"
    /\ UNCHANGED <<reqVars, extractVars, aggVars, response, dbVars>>

\* save_vocab_cache(vocab_list): DELETE FROM vocab_cache, then the inserts,
\* in one transaction; then the JSON response
SaveVocabCache ==
    /\ UNCHANGED <<thrVars, ankiVars>>
    /\ pc = "save"
    /\ db_cache' = VocabList(top_vocab)
    /\ response' = [status |-> 200, vocab |-> VocabList(top_vocab)]
    /\ pc' = "done"
    /\ UNCHANGED <<reqVars, extractVars, aggVars, top_vocab, db_known>>

Next ==
    \/ UploadEpub
    \/ ExtractItem
    \/ LoadKnownWords
    \/ SplitChapter
    \/ TakeSentence
    \/ CountToken
    \/ Rank
    \/ SaveVocabCache

Spec == Init /\ [][Next]_vars

(***************************************************************************)
(* backend/storage/sqlite_storage.py, called from several threads of one   *)
(* process.  Every function runs init_database() and then its own          *)
(* statements, each inside "with get_db_connection()": take _db_lock,      *)
(* connect, execute, commit, close, release.  What a connection has        *)
(* written and not committed is seen by that connection alone.             *)
(***************************************************************************)
\* the lists the model's callers save
VocabListA ==
    << [word |-> GAKKOU, frequency |-> 2, context |-> SubSeq(TextA, 1, 8)],
       [word |-> <<"GYOU", "ku">>, frequency |-> 1, context |-> SubSeq(TextA, 1, 8)] >>
VocabListB ==
    << [word |-> YOMU, frequency |-> 2, context |-> SubSeq(TextB, 1, 7)] >>

Call(name, words, vocab_list) ==
    [name |-> name, words |-> words, vocab_list |-> vocab_list]

\* the calls of the model; words is the set argument in the order the
\* comprehension [(word,) for word in words] goes through it
StorageCalls ==
    { Call("add_known_words", <<GAKKOU>>, <<>>),
      Call("add_known_words", <<YOMU, <<"GYOU", "ku">> >>, <<>>),
      Call("remove_known_words", <<GAKKOU>>, <<>>),
      Call("clear_all_known_words", <<>>, <<>>),
      Call("load_known_words", <<>>, <<>>),
      Call("save_vocab_cache", <<>>, VocabListA),
      Call("save_vocab_cache", <<>>, VocabListB),
      Call("load_vocab_cache", <<>>, <<>>) }

\* the known_words table when the threads start
StoredAtStart == {GAKKOU}

Statement(sql, word, row) == [sql |-> sql, word |-> word, row |-> row]
NoRow == [word |-> <<>>, frequency |-> 0, context |-> <<>>]

\* the statements of a call, in the order it executes them; executemany
\* executes its statement once per parameter row
Statements(op) ==
    CASE op.name = "add_known_words" ->
            [k \in 1..Len(op.words) |->
                Statement("INSERT OR IGNORE INTO known_words", op.words[k], NoRow)]
      [] op.name = "remove_known_words" ->
            [k \in 1..Len(op.words) |->
                Statement("DELETE FROM known_words WHERE word = ?", op.words[k], NoRow)]
      [] op.name = "clear_all_known_words" ->
            << Statement("DELETE FROM known_words", <<>>, NoRow) >>
      [] op.name = "load_known_words" ->
            << Statement("SELECT word FROM known_words", <<>>, NoRow) >>
      [] op.name = "save_vocab_cache" ->
            << Statement("DELETE FROM vocab_cache", <<>>, NoRow) >>
            \o [k \in 1..Len(op.vocab_list) |->
                  Statement("INSERT INTO vocab_cache", <<>>, op.vocab_list[k])]
      [] op.name = "load_vocab_cache" ->
            << Statement("SELECT FROM vocab_cache ORDER BY cached_at DESC", <<>>, NoRow) >>

\* conn.execute(stmt): the tables as the connection sees them afterwards
Executed(conn, stmt) ==
    CASE stmt.sql = "INSERT OR IGNORE INTO known_words" ->
            [conn EXCEPT !.known = @ \cup {stmt.word}]
      [] stmt.sql = "DELETE FROM known_words WHERE word = ?" ->
            [conn EXCEPT !.known = @ \ {stmt.word}]
      [] stmt.sql = "DELETE FROM known_words" ->
            [conn EXCEPT !.known = {}]
      [] stmt.sql = "DELETE FROM vocab_cache" ->
            [conn EXCEPT !.cache = <<>>]
      [] stmt.sql = "INSERT INTO vocab_cache" ->
            [conn EXCEPT !.cache = Append(@, stmt.row)]
      [] OTHER -> conn

\* the orders a SELECT may return rows in: the rows of one save carry the
\* same cached_at, and ORDER BY leaves the order of equal keys open
Orderings(rows) ==
    { [k \in 1..Len(rows) |-> rows[f[k]]] :
        f \in {g \in [1..Len(rows) -> 1..Len(rows)] :
                 \A a, b \in 1..Len(rows) : a # b => g[a] # g[b]} }

\* the values cursor.fetchall() may give the caller
Fetched(conn, stmt) ==
    CASE stmt.sql = "SELECT word FROM known_words" ->
            {[known |-> conn.known, rows |-> <<>>]}
      [] stmt.sql = "SELECT FROM vocab_cache ORDER BY cached_at DESC" ->
            {[known |-> {}, rows |-> r] : r \in Orderings(conn.cache)}
      [] OTHER -> {NoResult}

\* a variant without the lock: "with _db_lock" never waits
LockFree_NoLock == TRUE

\* _db_lock can be taken
LockFree == db_lock = 0

\* a thread calls a storage function, which calls init_database()
StorageCall(t) ==
    /\ t_pc[t] = "idle"
    /\ \E op \in StorageCalls : t_op' = [t_op EXCEPT ![t] = op]
    /\ t_pc' = [t_pc EXCEPT ![t] = "init_database"]
    /\ UNCHANGED <<ankiVars, pc, reqVars, extractVars, aggVars, outVars, dbVars,
                   db_lock, t_todo, t_conn, t_result>>

\* init_database: with _db_lock
InitAcquire(t) ==
    /\ t_pc[t] = "init_database"
    /\ LockFree
    /\ db_lock' = t
    /\ t_pc' = [t_pc EXCEPT ![t] = "create_tables"]
    /\ UNCHANGED <<ankiVars, pc, reqVars, extractVars, aggVars, outVars, dbVars,
                   t_op, t_todo, t_conn, t_result>>

\* init_database: CREATE TABLE IF NOT EXISTS, CREATE INDEX IF NOT EXISTS on
\* tables that exist, commit, close, and the lock is released
InitDatabase(t) ==
    /\ t_pc[t] = "create_tables"
    /\ db_lock' = 0
    /\ t_pc' = [t_pc EXCEPT ![t] = "connect"]
    /\ UNCHANGED <<ankiVars, pc, reqVars, extractVars, aggVars, outVars, dbVars,
                   t_op, t_todo, t_conn, t_result>>

\* get_db_connection: with _db_lock: conn = sqlite3.connect(DB_FILE)
Connect(t) ==
    /\ t_pc[t] = "connect"
    /\ LockFree
    /\ db_lock' = t
    /\ t_conn' = [t_conn EXCEPT ![t] =
                     [open |-> TRUE, known |-> db_known, cache |-> db_cache]]
    /\ t_todo' = [t_todo EXCEPT ![t] = Statements(t_op[t])]
    /\ t_pc' = [t_pc EXCEPT ![t] = "execute"]
    /\ UNCHANGED <<ankiVars, pc, reqVars, extractVars, aggVars, outVars, dbVars,
                   t_op, t_result>>

\* the next statement of the call
Execute(t) ==
    /\ t_pc[t] = "execute"
    /\ t_todo[t] # <<>>
    /\ t_conn' = [t_conn EXCEPT ![t] = Executed(@, Head(t_todo[t]))]
    /\ \E r \in Fetched(t_conn[t], Head(t_todo[t])) :
          t_result' = [t_result EXCEPT ![t] = r]
    /\ t_todo' = [t_todo EXCEPT ![t] = Tail(@)]
    /\ UNCHANGED <<ankiVars, pc, reqVars, extractVars, aggVars, outVars, dbVars,
                   db_lock, t_pc, t_op>>

\* get_db_connection after the yield: conn.commit(), conn.close()
Commit(t) ==
    /\ t_pc[t] = "execute"
    /\ t_todo[t] = <<>>
    /\ db_known' = t_conn[t].known
    /\ db_cache' = t_conn[t].cache
    /\ t_conn' = [t_conn EXCEPT ![t] = Closed]
    /\ t_pc' = [t_pc EXCEPT ![t] = "release"]
    /\ UNCHANGED <<ankiVars, pc, reqVars, extractVars, aggVars, outVars,
                   db_lock, t_op, t_todo, t_result>>

\* the end of "with _db_lock", and the return
Release(t) ==
    /\ t_pc[t] = "release"
    /\ db_lock' = 0
    /\ t_pc' = [t_pc EXCEPT ![t] = "done"]
    /\ UNCHANGED <<ankiVars, pc, reqVars, extractVars, aggVars, outVars, dbVars,
                   t_op, t_todo, t_conn, t_result>>

InitStorage ==
    /\ RequestIdle
    /\ StorageIdle
    /\ AnkiIdle
    /\ db_known = StoredAtStart
    /\ db_cache = OldCache

NextStorage ==
    \E t \in Threads :
        \/ StorageCall(t)
        \/ InitAcquire(t)
        \/ InitDatabase(t)
        \/ Connect(t)
        \/ Execute(t)
        \/ Commit(t)
        \/ Release(t)

SpecStorage == InitStorage /\ [][NextStorage]_vars

(***************************************************************************)
(* backend/services/anki_parser.py                                         *)
(***************************************************************************)
\* the bound on the lines of an uploaded export
MaxLines == 2

\* the characters of the model in U+3040-U+309F
Hiragana ==
    {"no", "ni", "ha", "wo", "ga", "de", "to", "mo", "ka", "ra", "ma", "yo", "ri",
     "he", "ne", "sa", "ko", "mu"}
\* the characters of the model in U+4E00-U+9FAF
Kanji == {"GAKU", "KOU", "HON", "DOKU"}
\* the class [぀-ゟ゠-ヿ一-龯㐀-䶿]
IsJapaneseChar(c) == c \in Hiragana \cup Kanji

\* the index of the first c in s, 0 when s has none
IndexOf(s, c) ==
    IF \E k \in 1..Len(s) : s[k] = c
    THEN CHOOSE k \in 1..Len(s) : s[k] = c /\ \A j \in 1..(k - 1) : s[j] # c
    ELSE 0

\* s.split(c)
RECURSIVE SplitOn(_, _)
SplitOn(s, c) ==
    LET k == IndexOf(s, c)
    IN  IF k = 0 THEN <<s>>
        ELSE <<SubSeq(s, 1, k - 1)>> \o SplitOn(SubSeq(s, k + 1, Len(s)), c)

\* re.sub(r'<[^>]+>', '', text): a "<" goes with everything up to the next
\* ">" when at least one character lies between the two
RECURSIVE RemoveTags(_)
RemoveTags(text) ==
    IF text = <<>> THEN <<>>
    ELSE LET k == IndexOf(Tail(text), ">")
         IN  IF Head(text) = "<" /\ k >= 2
             THEN RemoveTags(SubSeq(text, k + 2, Len(text)))
             ELSE <<Head(text)>> \o RemoveTags(Tail(text))

\* the character references of the model's files: &amp; is "&" and &#23398;
\* is 学 (U+5B66)
Entities ==
    { [ref |-> <<"&", "a", "m", "p", ";">>, char |-> "&"],
      [ref |-> <<"&", "#", "2", "3", "3", "9", "8", ";">>, char |-> "GAKU"] }

\* html.unescape(text): one pass, left to right
RECURSIVE Unescape(_)
Unescape(text) ==
    IF text = <<>> THEN <<>>
    ELSE IF \E e \in Entities : StartsWith(text, e.ref)
         THEN LET e == CHOOSE e \in Entities : StartsWith(text, e.ref)
              IN  <<e.char>> \o Unescape(SubSeq(text, Len(e.ref) + 1, Len(text)))
         ELSE <<Head(text)>> \o Unescape(Tail(text))

\* clean_html
CleanHtml(text) == Strip(Unescape(RemoveTags(text)))

\* the length of the longest prefix of s made of Japanese characters
RunLength(s) ==
    IF \E k \in 1..Len(s) : ~IsJapaneseChar(s[k])
    THEN (CHOOSE k \in 1..Len(s) :
             /\ ~IsJapaneseChar(s[k])
             /\ \A j \in 1..(k - 1) : IsJapaneseChar(s[j])) - 1
    ELSE Len(s)

\* extract_words_from_text: re.findall of the runs of Japanese characters
RECURSIVE ExtractWordsFromText(_)
ExtractWordsFromText(text) ==
    IF text = <<>> THEN <<>>
    ELSE LET n == RunLength(text)
         IN  IF n = 0 THEN ExtractWordsFromText(Tail(text))
             ELSE <<SubSeq(text, 1, n)>>
                     \o ExtractWordsFromText(SubSeq(text, n + 1, Len(text)))

\* {'の', 'に', 'は', 'を', 'が', 'で', 'と', 'も', 'から', 'まで', 'より', 'へ', 'か', 'ね',
\*  'よ', 'さ'}
CommonParticles ==
    { <<"no">>, <<"ni">>, <<"ha">>, <<"wo">>, <<"ga">>, <<"de">>, <<"to">>, <<"mo">>,
      <<"ka", "ra">>, <<"ma", "de">>, <<"yo", "ri">>, <<"he">>, <<"ka">>, <<"ne">>,
      <<"yo">>, <<"sa">> }

\* is_japanese_word
IsJapaneseWord(word) ==
    /\ Len(word) > 1
    /\ word \notin CommonParticles
    /\ \E k \in 1..Len(word) : IsJapaneseChar(word[k])

\* the words one line of the export adds: the body of "for line in lines"
WordsOfLine(line) ==
    IF Strip(line) = <<>> \/ Strip(SplitOn(line, "TAB")[1]) = <<>> THEN {}
    ELSE LET found == ExtractWordsFromText(CleanHtml(Strip(SplitOn(line, "TAB")[1])))
         IN  {found[k] : k \in {j \in 1..Len(found) : IsJapaneseWord(found[j])}}

\* file_content.strip().split('\n')
LinesOf(file_content) == SplitOn(Strip(file_content), "LF")

\* extract_words_from_anki_txt
ExtractWordsFromAnkiTxt(file_content) ==
    UNION {WordsOfLine(LinesOf(file_content)[k]) : k \in 1..Len(LinesOf(file_content))}

(***************************************************************************)
(* The uploads of the model: exports of at most MaxLines lines.            *)
(***************************************************************************)
AnkiLines ==
    { <<"GAKU", "KOU", "TAB", "s">>,                            \* 学校<TAB>s
      <<"HON", "TAB", "b">>,                                    \* 本<TAB>b
      <<"ka", "ra", "TAB", "f">>,                               \* から<TAB>f
      <<"c", "a", "t", "TAB", "ne", "ko">>,                     \* cat<TAB>ねこ
      <<"<", "b", ">", "DOKU", "mu", "<", "/", "b", ">">>,      \* <b>読む</b>
      <<"&", "#", "2", "3", "3", "9", "8", ";", "KOU">>,        \* &#23398;校
      <<"HON", "&", "a", "m", "p", ";", "no", "<", ">">>,       \* 本&amp;の<>
      <<"TAB", "GAKU", "KOU">>,                                 \* <TAB>学校
      <<" ">> }

\* the lines joined by line feeds
RECURSIVE JoinLines(_)
JoinLines(ls) ==
    IF ls = <<>> THEN <<>>
    ELSE IF Len(ls) = 1 THEN ls[1]
    ELSE ls[1] \o <<"LF">> \o JoinLines(Tail(ls))

AnkiContents == {JoinLines(ls) : ls \in UNION {[1..n -> AnkiLines] : n \in 0..MaxLines}}

TxtName == <<"d", ".", "t", "x", "t">>
ApkgName == <<"d", ".", "a", "p", "k", "g">>

\* file.filename.endswith('.txt')
EndsWithTxt(name) ==
    Len(name) >= 4 /\ SubSeq(name, Len(name) - 3, Len(name)) = <<".", "t", "x", "t">>

\* utf8 says whether content.decode('utf-8') succeeds; content is the decoded text
AnkiUploads ==
    {[name |-> TxtName, utf8 |-> TRUE, content |-> c] : c \in AnkiContents}
        \cup { [name |-> ApkgName, utf8 |-> TRUE, content |-> <<"GAKU", "KOU">>],
               [name |-> TxtName, utf8 |-> FALSE, content |-> <<>>] }

(***************************************************************************)
(* POST /upload-anki                                                       *)
(***************************************************************************)
AnkiResponse(status, detail) ==
    [status |-> status, detail |-> detail, words_imported |-> 0, total_known_words |-> 0]

\* HTTPException(status_code=400, detail="No Japanese words found in the
\* file. Make sure ...")
NoWordsError == AnkiResponse(400, "No Japanese words found in the file")

\* "except Exception as e: raise HTTPException(status_code=500,
\* detail=f"Error processing file: {str(e)}")": whatever was raised, the
\* request ends with this error
ExceptException(e) == AnkiResponse(500, "Error processing file")

\* the request arrives: the .txt check, which is outside the try block
UploadAnki ==
    /\ a_pc = "idle"
    /\ \E f \in AnkiUploads :
          /\ a_file' = f
          /\ IF ~EndsWithTxt(f.name)
             THEN /\ a_pc' = "done"
                  /\ a_response' = AnkiResponse(400, "File must be an Anki text export (.txt file)")
             ELSE /\ a_pc' = "decode"
                  /\ UNCHANGED a_response
    /\ a_before' = db_known
    /\ UNCHANGED <<a_lines, a_li, a_words>>
    /\ UNCHANGED <<pc, reqVars, extractVars, aggVars, outVars, dbVars, thrVars>>

\* content.decode('utf-8') and the first statements of
\* extract_words_from_anki_txt; UnicodeDecodeError has its own except clause
DecodeFile ==
    /\ a_pc = "decode"
    /\ IF a_file.utf8
       THEN /\ a_lines' = LinesOf(a_file.content)
            /\ a_li' = 1
            /\ a_words' = {}
            /\ a_pc' = "line"
            /\ UNCHANGED a_response
       ELSE /\ a_pc' = "done"
            /\ a_response' = AnkiResponse(400, "File must be UTF-8 encoded text file")
            /\ UNCHANGED <<a_lines, a_li, a_words>>
    /\ UNCHANGED <<a_file, a_before>>
    /\ UNCHANGED <<pc, reqVars, extractVars, aggVars, outVars, dbVars, thrVars>>

\* one turn of "for line in lines", and the return after the last
ExtractLine ==
    /\ a_pc = "line"
    /\ IF a_li <= Len(a_lines)
       THEN /\ a_words' = a_words \cup WordsOfLine(a_lines[a_li])
            /\ a_li' = a_li + 1
            /\ UNCHANGED a_pc
       ELSE /\ a_pc' = "check"
            /\ UNCHANGED <<a_li, a_words>>
    /\ UNCHANGED <<a_file, a_before, a_lines, a_response>>
    /\ UNCHANGED <<pc, reqVars, extractVars, aggVars, outVars, dbVars, thrVars>>

\* "if not words: raise HTTPException(status_code=400, ...)" is inside the
\* try block.  HTTPException is an Exception and not a UnicodeDecodeError, so
\* "except Exception as e" catches it and raises HTTPException(500,
\* "Error processing file: ...") in its place
CheckWords ==
    /\ a_pc = "check"
    /\ IF a_words = {}
       THEN /\ a_pc' = "done"
            /\ a_response' = ExceptException(NoWordsError)
       ELSE /\ a_pc' = "add"
            /\ UNCHANGED a_response
    /\ UNCHANGED <<a_file, a_before, a_lines, a_li, a_words>>
    /\ UNCHANGED <<pc, reqVars, extractVars, aggVars, outVars, dbVars, thrVars>>

\* add_known_words(words): INSERT OR IGNORE of every word, committed
AddKnownWords ==
    /\ a_pc = "add"
    /\ db_known' = db_known \cup a_words
    /\ a_pc' = "load"
    /\ UNCHANGED <<a_file, a_before, a_lines, a_li, a_words, a_response>>
    /\ UNCHANGED <<pc, reqVars, extractVars, aggVars, outVars, db_cache, thrVars>>

\* known_words = load_known_words() and the JSON response
RespondAnki ==
    /\ a_pc = "load"
    /\ a_response' = [status |-> 200, detail |-> "",
                      words_imported |-> Cardinality(a_words),
                      total_known_words |-> Cardinality(db_known)]
    /\ a_pc' = "done"
    /\ UNCHANGED <<a_file, a_before, a_lines, a_li, a_words>>
    /\ UNCHANGED <<pc, reqVars, extractVars, aggVars, outVars, dbVars, thrVars>>

InitAnki ==
    /\ RequestIdle
    /\ StorageIdle
    /\ AnkiIdle
    /\ db_known \in KnownWordSets
    /\ db_cache = OldCache

NextAnki ==
    \/ UploadAnki
    \/ DecodeFile
    \/ ExtractLine
    \/ CheckWords
    \/ AddKnownWords
    \/ RespondAnki

SpecAnki == InitAnki /\ [][NextAnki]_vars

(***************************************************************************)
(* What the run has done so far, read off the state.                       *)
(***************************************************************************)
\* get_vocab_with_context has returned
Ranked == pc \in {"save", "done"}

\* the places in P, a value of visited, where base was accepted
Accepted(P, base) ==
    {k \in 1..Len(P) :
        /\ P[k].tok.base_form = base
        /\ IsCounted(P[k].tok, known_words)}

Least(S) == CHOOSE x \in S : \A y \in S : x <= y

\* the place in P of the first accepted occurrence of each entry of word_info,
\* 0 when there is none
FirstSeen(P) ==
    [e \in 1..Len(word_info) |->
        LET places == Accepted(P, word_info[e].word)
        IN  IF places = {} THEN 0 ELSE Least(places)]

(***************************************************************************)
(* C1: no word that get_vocab_with_context returns is in the known_words   *)
(* set it was given, however often the word occurs in the text; the same   *)
(* holds of word_info all along and of the response.                       *)
(***************************************************************************)
C1_KnownWordsExcluded ==
    /\ \A k \in 1..Len(word_info) : word_info[k].word \notin known_words
    /\ \A k \in 1..Len(top_vocab) : top_vocab[k].word \notin known_words
    /\ \A k \in 1..Len(response.vocab) : response.vocab[k].word \notin db_known

\* a finished run with a non-empty result in which a known word occurred
\* at least twice in tokenized sentences
C1_Witness ==
    /\ pc = "done"
    /\ top_vocab # <<>>
    /\ LET P == visited
       IN  \E w \in known_words :
              Cardinality({k \in 1..Len(P) : P[k].tok.base_form = w}) >= 2

(***************************************************************************)
(* C2: at every point of the aggregation word_info has exactly one entry   *)
(* per accepted base form; the entry's count is the number of accepted     *)
(* occurrences so far and its context is the sentence of the first of      *)
(* them; the entries stand in first-seen order.  Hence the first accepted  *)
(* occurrence makes an entry of count 1 with the current sentence, and     *)
(* each later one adds exactly 1 and leaves the context alone.             *)
(***************************************************************************)
C2_CountAndFirstContext ==
    LET P == visited
        first == FirstSeen(P)
    IN  /\ \A k \in 1..Len(P) :
              IsCounted(P[k].tok, known_words)
                 => \E e \in 1..Len(word_info) : word_info[e].word = P[k].tok.base_form
        /\ \A e \in 1..Len(word_info) :
              /\ first[e] # 0
              /\ word_info[e].count = Cardinality(Accepted(P, word_info[e].word))
              /\ word_info[e].context = P[first[e]].sent
        /\ \A a \in 1..(Len(word_info) - 1) : first[a] < first[a + 1]

\* a finished run in which a word was accepted in two different sentences:
\* it has count 2 and the first of the two as context
C2_Witness ==
    /\ pc = "done"
    /\ LET P == visited
           first == FirstSeen(P)
       IN  \E e \in 1..Len(word_info) :
              /\ word_info[e].count = 2
              /\ \E k \in Accepted(P, word_info[e].word) :
                    P[k].sent # word_info[e].context
              /\ word_info[e].context = P[first[e]].sent

(***************************************************************************)
(* C3: for a limit >= 0 the returned list is the first min(limit, n)       *)
(* entries of the n entries of word_info ordered by descending count,      *)
(* entries of equal count in insertion order; a limit above n returns all  *)
(* n entries.                                                              *)
(***************************************************************************)
\* the place of entry k of word_info in that order
PlaceOf(k) ==
    1 + Cardinality({j \in 1..Len(word_info) :
                        \/ word_info[j].count > word_info[k].count
                        \/ /\ word_info[j].count = word_info[k].count
                           /\ j < k})

C3_StableRanking ==
    (Ranked /\ limit >= 0) =>
        /\ Len(top_vocab) = IF limit < Len(word_info) THEN limit ELSE Len(word_info)
        /\ \A k \in 1..Len(word_info) :
              PlaceOf(k) <= Len(top_vocab) => top_vocab[PlaceOf(k)] = word_info[k]

\* entries a, b, c inserted in this order, a and b of one count and c of a
\* higher one, returned as [c, a, b] under limit 3 with further entries cut
C3_Witness ==
    /\ pc = "done"
    /\ limit = 3
    /\ Len(word_info) > 3
    /\ \E a, b, c \in 1..Len(word_info) :
          /\ a < b /\ b < c
          /\ word_info[a].count = word_info[b].count
          /\ word_info[c].count > word_info[a].count
          /\ top_vocab = <<word_info[c], word_info[a], word_info[b]>>

(***************************************************************************)
(* C4: a negative limit is rejected before the pipeline runs: no ranked    *)
(* list is produced for it, the request is not answered 200 and            *)
(* vocab_cache keeps its rows.                                             *)
(***************************************************************************)
C4_NegativeLimitRejected ==
    limit < 0 =>
        /\ ~Ranked
        /\ response.status # 200
        /\ db_cache = OldCache

(***************************************************************************)
(* C5: the chapters extract_chapters_from_epub returns.                    *)
(***************************************************************************)
\* extract_chapters_from_epub has returned
Extracted ==
    \/ pc = "extract" /\ i > Len(items)
    \/ pc \in {"chapter", "sentence", "token", "save", "done"}

IsNonEmpty(text) == text # <<>>

\* the non-empty trimmed texts of the archive's items, in archive order
NonEmptyTexts(archive) ==
    SelectSeq([k \in 1..Len(archive) |->
                  IF archive[k].content = "html" THEN ItemText(archive[k]) ELSE <<>>],
              IsNonEmpty)

\* the fingerprints of the texts of T
Fingerprints(T) == [k \in 1..Len(T) |-> MD5(T[k])]

\* the first n texts of T without those whose key an earlier text has; K
\* holds the keys of the texts of T
RECURSIVE FirstsUpTo(_, _, _)
FirstsUpTo(T, K, n) ==
    IF n = 0 THEN <<>>
    ELSE IF \E j \in 1..(n - 1) : K[j] = K[n]
         THEN FirstsUpTo(T, K, n - 1)
         ELSE Append(FirstsUpTo(T, K, n - 1), T[n])

Firsts(T, K) == FirstsUpTo(T, K, Len(T))

ExFirst == SubSeq(TextEx, 1, 7)
ExSecond == SubSeq(TextEx, 8, 11)

\* sentences is the split of chapters[ci]
Splitting == pc \in {"sentence", "token"}

\* C6 as claimed, whichever of the two is meant by "sentences": the pieces
\* of the split or the sentences handed on to the tokenizer.  The example
\* text gives two of them, each ending in "。"
C6_ExampleGivesTwoSentences ==
    (pc = "done" /\ items = <<ItemEx>>) =>
        \/ /\ Len(sentences) = 2
           /\ \A k \in 1..2 : sentences[k][Len(sentences[k])] = "KUTEN"
        \/ /\ Len(tokenized) = 2
           /\ \A k \in 1..2 : tokenized[k][Len(tokenized[k])] = "KUTEN"

\* C6 as amended: the text is cut right after every sentence-final
\* character and nowhere else, so such a character is always the last one of
\* its piece, also after trimming; a piece is left over after the last one
\* (empty when the text ends with it).  The example text splits into
\* "これは文です。", "次の文。" and "", and only the first is long enough to be
\* tokenized
C6_DelimiterEndsItsSentence ==
    /\ Splitting =>
          /\ Concat(sentences) = chapters[ci]
          /\ \A k \in 1..Len(sentences) : \A j \in 1..Len(sentences[k]) :
                sentences[k][j] \in SentenceFinal
                   <=> (j = Len(sentences[k]) /\ k < Len(sentences))
          /\ \A k \in 1..(Len(sentences) - 1) :
                /\ Strip(sentences[k]) # <<>>
                /\ Strip(sentences[k])[Len(Strip(sentences[k]))]
                      = sentences[k][Len(sentences[k])]
          /\ chapters[ci] = TextEx => sentences = <<ExFirst, ExSecond, <<>> >>
    /\ (pc = "done" /\ items = <<ItemEx>>) => tokenized = <<ExFirst>>
    /\ \A k \in 1..Len(tokenized) :
          \A j \in 1..(Len(tokenized[k]) - 1) : tokenized[k][j] \notin SentenceFinal

\* the example text has gone through the segmenter
C6_Witness ==
    /\ pc = "done"
    /\ items = <<ItemEx>>
    /\ sentences = <<ExFirst, ExSecond, <<>> >>
    /\ tokenized = <<ExFirst>>

(***************************************************************************)
(* C7: a candidate of fewer than 5 characters after trimming is never      *)
(* passed to the tokenizer and is the sentence of no token that is gone    *)
(* through; every count is made up of accepted tokens of sentences of at   *)
(* least 5 characters, and every context has at least 5 characters.        *)
(***************************************************************************)
C7_TinyFragmentsDropped ==
    /\ \A k \in 1..Len(tokenized) : Len(tokenized[k]) >= 5
    /\ \A k \in 1..Len(visited) : Len(visited[k].sent) >= 5
    /\ pc = "token" => Len(sentence) >= 5
    /\ \A e \in 1..Len(word_info) :
          /\ Len(word_info[e].context) >= 5
          /\ word_info[e].count =
                Cardinality({k \in Accepted(visited, word_info[e].word) :
                                Len(visited[k].sent) >= 5})
    /\ \A e \in 1..Len(top_vocab) : Len(top_vocab[e].context) >= 5
    /\ \A e \in 1..Len(response.vocab) : Len(response.vocab[e].context) >= 5

\* a finished run that met a four-character fragment holding a word that is
\* counted elsewhere: the fragment was not tokenized
C7_Witness ==
    /\ pc = "done"
    /\ \E c \in 1..Len(chapters) :
          LET pieces == ReSplit(chapters[c])
          IN  \E k \in 1..Len(pieces) :
                 /\ Len(Strip(pieces[k])) = 4
                 /\ \A j \in 1..Len(tokenized) : tokenized[j] # Strip(pieces[k])
                 /\ \E e \in 1..Len(word_info) :
                       Contains(Strip(pieces[k]), word_info[e].word)

(***************************************************************************)
(* C8: a failure confined to one item or one sentence does not abort the   *)
(* run: no request ends in the error answer.                               *)
(***************************************************************************)
C8_FailureDoesNotAbort == pc # "failed" /\ response.status # 500

(***************************************************************************)
(* C9: concurrent storage calls, each under the module lock, leave the     *)
(* tables and return the values that the calls give when run one after     *)
(* the other in some order; no add is lost; load_vocab_cache returns the   *)
(* rows of one saved list, whole; and never are two connections open.      *)
(***************************************************************************)
\* a and b hold the same rows, each as often
SameRows(a, b) == a \in Orderings(b)

\* the tables after the call op has run alone on the tables st
After(st, op) ==
    CASE op.name = "add_known_words" ->
            [st EXCEPT !.known = @ \cup {op.words[k] : k \in 1..Len(op.words)}]
      [] op.name = "remove_known_words" ->
            [st EXCEPT !.known = @ \ {op.words[k] : k \in 1..Len(op.words)}]
      [] op.name = "clear_all_known_words" -> [st EXCEPT !.known = {}]
      [] op.name = "save_vocab_cache" -> [st EXCEPT !.cache = op.vocab_list]
      [] OTHER -> st

\* result is what op returns when it runs alone on the tables st
Returns(st, op, result) ==
    CASE op.name = "load_known_words" -> result.known = st.known /\ result.rows = <<>>
      [] op.name = "load_vocab_cache" -> result.known = {} /\ SameRows(result.rows, st.cache)
      [] OTHER -> result = NoResult

\* the calls of the threads order[k], order[k+1], ..., run one after the other
\* on the tables st, return what the threads got and end in the tables of
\* the state
RECURSIVE RunsAs(_, _, _)
RunsAs(order, k, st) ==
    IF k > Len(order)
    THEN st.known = db_known /\ st.cache = db_cache
    ELSE /\ Returns(st, t_op[order[k]], t_result[order[k]])
         /\ RunsAs(order, k + 1, After(st, t_op[order[k]]))

ThreadOrders ==
    {o \in [Threads -> Threads] : \A a, b \in Threads : a # b => o[a] # o[b]}

AllDone == \A t \in Threads : t_pc[t] = "done"

C9_StorageCallsSerialize ==
    /\ AllDone =>
          \E o \in ThreadOrders :
             RunsAs(o, 1, [known |-> StoredAtStart, cache |-> OldCache])
    /\ (AllDone /\ \A t \in Threads : t_op[t].name = "add_known_words") =>
          /\ StoredAtStart \subseteq db_known
          /\ \A t \in Threads : \A k \in 1..Len(t_op[t].words) :
                t_op[t].words[k] \in db_known
    /\ \A t \in Threads :
          (t_op[t].name = "load_vocab_cache" /\ t_pc[t] \in {"release", "done"}) =>
             \/ SameRows(t_result[t].rows, OldCache)
             \/ \E u \in Threads :
                   /\ t_op[u].name = "save_vocab_cache"
                   /\ SameRows(t_result[t].rows, t_op[u].vocab_list)
    /\ \A t, u \in Threads : (t_conn[t].open /\ t_conn[u].open) => t = u

\* two adds at the same time: one holds the lock and has inserted a word it
\* has not committed yet, the other waits for the lock at its connect
C9_Witness ==
    \E t, u \in Threads :
        /\ t_op[t].name = "add_known_words" /\ t_op[u].name = "add_known_words"
        /\ t_op[t] # t_op[u]
        /\ db_lock = t
        /\ t_conn[t].open /\ t_conn[t].known # db_known
        /\ t_pc[u] = "connect"

(***************************************************************************)
(* C10: a token is counted if and only if its base form has more than one  *)
(* character, is not one of the 14 stop words, is not a known word, and    *)
(* its part of speech starts with noun, verb or adjective and does not     *)
(* hold the non-independent marker: every count is the number of tokens    *)
(* gone through that meet the four conditions, a token that meets them has *)
(* an entry, and every word of the result is the base form of such a       *)
(* token.                                                                  *)
(***************************************************************************)
MeetsFour(t) ==
    /\ Len(t.base_form) > 1
    /\ t.base_form \notin BLACKList
    /\ t.base_form \notin known_words
    /\ \/ SubSeq(t.part_of_speech, 1, 2) = NOUN
       \/ SubSeq(t.part_of_speech, 1, 2) = VERB
       \/ SubSeq(t.part_of_speech, 1, 3) = ADJECTIVE
    /\ \A k \in 1..(Len(t.part_of_speech) - 2) :
          SubSeq(t.part_of_speech, k, k + 2) # NON_INDEPENDENT

\* the count word_info holds for base, 0 when it holds none
CountOf(base) ==
    IF HasKey(word_info, base)
    THEN word_info[CHOOSE e \in 1..Len(word_info) : word_info[e].word = base].count
    ELSE 0

C10_CountedIffFourConditions ==
    /\ Cardinality(BLACKList) = 14
    /\ \A k \in 1..Len(visited) :
          CountOf(visited[k].tok.base_form) =
             Cardinality({j \in 1..Len(visited) :
                             /\ visited[j].tok.base_form = visited[k].tok.base_form
                             /\ MeetsFour(visited[j].tok)})
    /\ \A e \in 1..Len(word_info) :
          \E j \in 1..Len(visited) :
             visited[j].tok.base_form = word_info[e].word /\ MeetsFour(visited[j].tok)
    /\ \A e \in 1..Len(top_vocab) :
          \E j \in 1..Len(visited) :
             visited[j].tok.base_form = top_vocab[e].word /\ MeetsFour(visited[j].tok)

\* the token fails the condition on the length alone, on the stop list alone,
\* on the known words alone, on the part of speech alone
FailsOnly(t, which) ==
    /\ (which = "length") = (Len(t.base_form) <= 1)
    /\ (which = "stop") = (t.base_form \in BLACKList)
    /\ (which = "known") = (t.base_form \in known_words)
    /\ (which = "pos") = ~IsIndependentContentWord(t.part_of_speech)

\* a finished run that counted some tokens and went through tokens failing
\* each of the four conditions alone
C10_Witness ==
    /\ pc = "done"
    /\ top_vocab # <<>>
    /\ \A which \in {"length", "stop", "known", "pos"} :
          \E k \in 1..Len(visited) : FailsOnly(visited[k].tok, which)

(***************************************************************************)
(* C11: the closing quotation mark as a sentence boundary.                 *)
(***************************************************************************)
\* 「はい」 and と言った。, the two halves of TextQuote
QuoteFirst == SubSeq(TextQuote, 1, 4)
QuoteSecond == SubSeq(TextQuote, 5, 9)

Last(s) == s[Len(s)]

\* how many of the characters of s are c
Occurrences(s, c) == Cardinality({k \in 1..Len(s) : s[k] = c})

\* the pieces of the split that a cut closes and that end in "」"
QuoteClosed(ss) == {k \in 1..(Len(ss) - 1) : Last(ss[k]) = "KAGI_R"}

\* C11 as claimed: the text is cut after a "」" only when the character
\* before it is one of 。！？, so a piece closed by "」" is that "」" alone,
\* right after a piece closed by 。！？; 「はい」と言った。 is not cut after its
\* "」" and one piece holds the text around it
C11_QuoteSplitsOnlyAfterFinal ==
    Splitting =>
        /\ \A k \in QuoteClosed(sentences) :
              /\ sentences[k] = <<"KAGI_R">>
              /\ k > 1
              /\ Last(sentences[k - 1]) \in SentenceFinal_NoQuote
        /\ chapters[ci] = TextQuote => sentences[1] = TextQuote

\* C11 as amended: the text is cut after every "」", whatever precedes it:
\* a "」" is always the last character of its piece and never of the
\* left-over piece, so the cuts closed by "」" are as many as the "」" of
\* the text.  「はい」と言った。 splits into 「はい」, と言った。 and "", and only
\* と言った。 is long enough to be tokenized
C11_QuoteAlwaysSplits ==
    /\ Splitting =>
          /\ \A k \in 1..Len(sentences) : \A j \in 1..Len(sentences[k]) :
                sentences[k][j] = "KAGI_R"
                   => (j = Len(sentences[k]) /\ k < Len(sentences))
          /\ Cardinality(QuoteClosed(sentences)) = Occurrences(chapters[ci], "KAGI_R")
          /\ chapters[ci] = TextQuote
                => sentences = <<QuoteFirst, QuoteSecond, <<>> >>
    /\ (pc = "done" /\ items = <<ItemQuote>>) => tokenized = <<QuoteSecond>>

\* 「はい」と言った。 has gone through the pipeline: it was cut after its "」",
\* which follows い, and 言う was counted with と言った。 as its context
C11_Witness ==
    /\ pc = "done"
    /\ items = <<ItemQuote>>
    /\ sentences = <<QuoteFirst, QuoteSecond, <<>> >>
    /\ tokenized = <<QuoteSecond>>
    /\ \E k \in 1..Len(word_info) :
          word_info[k].word = <<"GEN", "u_">> /\ word_info[k].context = QuoteSecond

(***************************************************************************)
(* C12: an upload to /upload-anki that yields no Japanese words.           *)
(***************************************************************************)
\* the request for a UTF-8 .txt file without Japanese words has ended
NoWordsUploadDone ==
    /\ a_pc = "done"
    /\ EndsWithTxt(a_file.name)
    /\ a_file.utf8
    /\ ExtractWordsFromAnkiTxt(a_file.content) = {}

\* C12 as claimed: when a UTF-8 .txt upload yields no Japanese words, the
\* request ends with the 400 error "No Japanese words found in the file"
\* and table known_words is as it was when the upload arrived
C12_NoWordsIsClientError ==
    NoWordsUploadDone =>
        /\ a_response = NoWordsError
        /\ db_known = a_before

=============================================================================
